---- MODULE Spec2Model ----
(***************************************************************************)
(* CitationManager (src/research/citation_manager.py), Helpers             *)
(* (src/utils/helpers.py) and GPT5Client (src/core/gpt5_client.py) as      *)
(* state machines.                                                         *)
(*                                                                         *)
(* Python str values are TLA+ strings; a character of a string s is        *)
(* SubSeq(s, i, i).  A Python value whose type is not fixed by the code    *)
(* is a one-field record named after its type: [int |-> 4], [str |-> "4"], *)
(* [list |-> <<...>>], so that "4" and 4 are different values.  The        *)
(* outcome of a call is Return(v) or Raise(e).                             *)
(***************************************************************************)
EXTENDS FiniteSets, Integers, Sequences, TLC

VARIABLES
    citations,   \* self.citations of the CitationManager
    now,         \* datetime.now().year, the calendar year of the clock
    called,      \* name of the last method called, "" before the first call
    text,        \* extract_citations: the argument of the last call
    extracted,   \* extract_citations: the outcome of the last call
    fmt_args,    \* format_citation: the arguments of the last call
    formatted,   \* format_citation: the outcome of the last call
    citation,    \* validate_citation: the argument of the last call
    valid,       \* validate_citation: the outcome of the last call
    earlier,     \* history: the outcome of the validate_citation call made
                 \* before the last one, if any, as a set
    bib_records, \* generate_bibliography: the caller's list of records
    bib_style,   \* generate_bibliography: the style argument
    bibliography, \* generate_bibliography: the outcome of the last call
    authors_str, \* Helpers.parse_authors: the argument
    parsed,      \* Helpers.parse_authors: the outcome of the last call
    using_comet, \* GPT5Client: set by __init__ from the API key given
    content,     \* GPT5Client.analyze_document: the content argument
    pc,          \* GPT5Client.analyze_document: where the call stands
    attempt,     \* GPT5Client.analyze_document: the loop variable
    api_calls,   \* the outcomes of the chat-completion requests made so far
    slept,       \* the durations of the time.sleep calls made so far
    result,      \* GPT5Client: the dictionary the call has returned
    call,        \* GPT5Client: the method, other than analyze_document,
                 \* that the caller calls, with its arguments
    chunk_args,  \* FileProcessor.chunk_text: text and max_chunk_size
    chunks,      \* FileProcessor.chunk_text: the outcome of the last call
    truncate_args, \* Helpers.truncate_text: text, max_length and suffix
    truncated,   \* Helpers.truncate_text: the outcome of the last call
    year_value,  \* Validators.validate_year: the argument
    year_valid,  \* Validators.validate_year: the outcome of the last call
    format_outcomes \* history: the format_citation calls made so far, as
                 \* pairs of the arguments and the outcome

\* the lists of records and of rendered strings of generate_bibliography
bibVars == <<bib_records, bib_style, bibliography>>
\* src/utils/helpers.py
helperVars == <<authors_str, parsed>>
\* src/core/gpt5_client.py
clientVars == <<using_comet, content, pc, attempt, api_calls, slept, result, call>>

managerVars == <<citations, now, text, extracted, fmt_args, formatted, citation, valid, earlier, bibVars, format_outcomes>>

\* the static utilities of src/modules/file_processor.py,
\* src/utils/helpers.py and src/utils/validators.py
utilVars == <<chunk_args, chunks, truncate_args, truncated, year_value, year_valid>>

vars == <<citations, now, called, text, extracted, fmt_args, formatted,
          citation, valid, earlier, bibVars, helperVars, clientVars, utilVars,
          format_outcomes>>

---------------------------------------------------------------------------
(* Bounds of the model *)

MaxFragments == 3      \* a text is built from at most this many fragments
MaxAuthors == 4        \* an authors list has at most this many names
MaxRecords == 3        \* a bibliography has at most this many records
MaxWords == 3          \* a text to chunk has at most this many words
MaxChunkSize == 10     \* max_chunk_size is at most this
MaxLength == 20        \* max_length of truncate_text is at most this
MaxPapers == 2         \* the most papers given to a method of the client
YearMargin == 5        \* years are taken this far around the limits
FirstYear == 2025      \* the year the clock shows at construction
ClockYears == 3        \* the clock advances at most this many years

---------------------------------------------------------------------------
(* Python values and call outcomes *)

PyInt(i) == [int |-> i]
PyStr(s) == [str |-> s]
PyList(l) == [list |-> l]
\* the float whole + tenths / 10 (whole - tenths / 10 when whole < 0)
PyFloat(whole, tenths) == [float |-> <<whole, tenths>>]
\* float("inf") and float("nan")
Infinity == [inf |-> TRUE]
NaN == [nan |-> TRUE]
IsInt(v) == "int" \in DOMAIN v
IsStr(v) == "str" \in DOMAIN v
IsList(v) == "list" \in DOMAIN v
IsFloat(v) == "float" \in DOMAIN v

Return(v) == [val |-> v]
Raise(e) == [exc |-> e]
Raised(r) == "exc" \in DOMAIN r
Returned(r) == "val" \in DOMAIN r

---------------------------------------------------------------------------
(* Characters and strings *)

Upper == {"A","B","C","D","E","F","G","H","I","J","K","L","M",
          "N","O","P","Q","R","S","T","U","V","W","X","Y","Z"}
Lower == {"a","b","c","d","e","f","g","h","i","j","k","l","m",
          "n","o","p","q","r","s","t","u","v","w","x","y","z"}
Digit == {"0","1","2","3","4","5","6","7","8","9"}
Whitespace == {" ", "\t", "\n", "\r", "\f"}

\* s[i-1] of Python, "" past either end
Ch(s, i) == IF i \in 1..Len(s) THEN SubSeq(s, i, i) ELSE ""

\* the number of characters of s from position i on that lie in class
RECURSIVE RunLen(_, _, _)
RunLen(s, i, class) ==
    IF i <= Len(s) /\ Ch(s, i) \in class
    THEN 1 + RunLen(s, i + 1, class)
    ELSE 0

\* the number of characters of s before position i, going left, in class
RECURSIVE RunLenBack(_, _, _)
RunLenBack(s, i, class) ==
    IF i >= 1 /\ Ch(s, i) \in class
    THEN 1 + RunLenBack(s, i - 1, class)
    ELSE 0

\* str.strip()
strip(s) ==
    LET lead == RunLen(s, 1, Whitespace)
        trail == RunLenBack(s, Len(s), Whitespace)
    IN IF lead = Len(s) THEN "" ELSE SubSeq(s, lead + 1, Len(s) - trail)

\* s contains sub as a substring
Contains(s, sub) ==
    \E i \in 1..(Len(s) - Len(sub) + 1) : SubSeq(s, i, i + Len(sub) - 1) = sub

StartsWith(s, pre) == Len(pre) <= Len(s) /\ SubSeq(s, 1, Len(pre)) = pre

DigitValue(c) ==
    CASE c = "0" -> 0 [] c = "1" -> 1 [] c = "2" -> 2 [] c = "3" -> 3
      [] c = "4" -> 4 [] c = "5" -> 5 [] c = "6" -> 6 [] c = "7" -> 7
      [] c = "8" -> 8 [] c = "9" -> 9

DigitChar(d) ==
    CASE d = 0 -> "0" [] d = 1 -> "1" [] d = 2 -> "2" [] d = 3 -> "3"
      [] d = 4 -> "4" [] d = 5 -> "5" [] d = 6 -> "6" [] d = 7 -> "7"
      [] d = 8 -> "8" [] d = 9 -> "9"

\* the value of a non-empty string of decimal digits
RECURSIVE DigitsValue(_)
DigitsValue(s) ==
    IF Len(s) = 0 THEN 0
    ELSE 10 * DigitsValue(SubSeq(s, 1, Len(s) - 1)) + DigitValue(Ch(s, Len(s)))

\* the decimal digits of a natural number
RECURSIVE NatToStr(_)
NatToStr(n) ==
    IF n < 10 THEN DigitChar(n) ELSE NatToStr(n \div 10) \o DigitChar(n % 10)

\* str(v) as an f-string renders a value
PyFormat(v) ==
    IF IsStr(v) THEN v.str
    ELSE IF v.int < 0 THEN "-" \o NatToStr(0 - v.int) ELSE NatToStr(v.int)

\* int(v): an int is itself; a float is truncated, unless it is infinite or
\* not a number; a str is stripped, may carry a sign, and must then be
\* decimal digits; anything else is a TypeError
int(v) ==
    IF IsInt(v) THEN Return(v.int)
    ELSE IF IsFloat(v) THEN Return(v.float[1])
    ELSE IF v = Infinity THEN Raise("OverflowError")
    ELSE IF v = NaN THEN Raise("ValueError")
    ELSE IF IsStr(v) THEN
        LET s == strip(v.str)
            signed == Ch(s, 1) \in {"+", "-"}
            digits == IF signed THEN SubSeq(s, 2, Len(s)) ELSE s
        IN IF Len(digits) >= 1 /\ RunLen(digits, 1, Digit) = Len(digits)
           THEN Return(IF Ch(s, 1) = "-" THEN 0 - DigitsValue(digits)
                       ELSE DigitsValue(digits))
           ELSE Raise("ValueError")
    ELSE Raise("TypeError")

\* bool(v): the truth value of an int, a str or a list
Truthy(v) ==
    IF IsInt(v) THEN v.int # 0
    ELSE IF IsStr(v) THEN v.str # ""
    ELSE Len(v.list) > 0

---------------------------------------------------------------------------
(* extract_citations *)

\* the class [a-zA-Z\s&,] of pattern1
AuthorClass == Upper \cup Lower \cup Whitespace \cup {"&", ","}

\* w1 is tried before w2 by the backtracking matcher: longer repetitions
\* first, and an optional item present before absent
TriedBefore(w1, w2) ==
    \/ w1[1] > w2[1]
    \/ w1[1] = w2[1] /\ w1[2] > w2[2]
    \/ w1[1] = w2[1] /\ w1[2] = w2[2] /\ w1[3] >= w2[3]

\* pattern1 = \(([A-Z][a-zA-Z\s&,]+),?\s*(\d{4})\) matched at position p:
\* the ways <<k, c, m>> to match with k characters taken by the class
\* repetition, c commas by ",?" and m characters by "\s*"
pattern1_ways(s, p) ==
    IF Ch(s, p) # "(" \/ Ch(s, p + 1) \notin Upper THEN {}
    ELSE LET n == RunLen(s, p + 2, AuthorClass)
         IN {w \in (1..n) \X {0, 1} \X (0..n) :
                LET q == p + 2 + w[1]
                    d == q + w[2] + w[3]
                IN /\ w[2] = 1 => Ch(s, q) = ","
                   /\ \A j \in 1..w[3] : Ch(s, q + w[2] + j - 1) \in Whitespace
                   /\ \A j \in 0..3 : Ch(s, d + j) \in Digit
                   /\ Ch(s, d + 4) = ")"}

\* the match of pattern1 at p: its groups and the position after it
pattern1_match(s, p) ==
    LET ways == pattern1_ways(s, p)
        w == CHOOSE x \in ways : \A y \in ways : TriedBefore(x, y)
        d == p + 2 + w[1] + w[2] + w[3]
    IN [groups |-> <<SubSeq(s, p + 1, p + 1 + w[1]), SubSeq(s, d, d + 3)>>,
        end |-> d + 5]

\* re.findall(pattern1, text) from position p on: the matches found
\* scanning left to right, each search resuming after the previous match
RECURSIVE findall1(_, _)
findall1(s, p) ==
    IF p > Len(s) THEN <<>>
    ELSE IF pattern1_ways(s, p) = {} THEN findall1(s, p + 1)
    ELSE LET m == pattern1_match(s, p)
         IN <<m.groups>> \o findall1(s, m.end)

\* brackets with nothing between them match, too: \[(\d*)\]
pattern2_ways_star(s, p) ==
    IF Ch(s, p) # "[" THEN {}
    ELSE {k \in 0..RunLen(s, p + 1, Digit) : Ch(s, p + 1 + k) = "]"}

\* pattern2 = \[(\d+)\] matched at position p: the lengths k of the digit
\* repetition with which it matches
pattern2_ways(s, p) ==
    IF Ch(s, p) # "[" THEN {}
    ELSE {k \in 1..RunLen(s, p + 1, Digit) : Ch(s, p + 1 + k) = "]"}

pattern2_match(s, p) ==
    LET ways == pattern2_ways(s, p)
        k == CHOOSE x \in ways : \A y \in ways : x >= y
    IN [groups |-> SubSeq(s, p + 1, p + k), end |-> p + k + 2]

RECURSIVE findall2(_, _)
findall2(s, p) ==
    IF p > Len(s) THEN <<>>
    ELSE IF pattern2_ways(s, p) = {} THEN findall2(s, p + 1)
    ELSE LET m == pattern2_match(s, p)
         IN <<m.groups>> \o findall2(s, m.end)

\* the year is stored as the number of the mention, too
in_text_mention_numbered(match) ==
    [authors |-> PyStr(strip(match[1])), year |-> PyStr(match[2]),
     number |-> PyStr(match[2]), type |-> PyStr("in-text")]

\* the mention appended for a match of pattern1
in_text_mention(match) ==
    [authors |-> PyStr(strip(match[1])), year |-> PyStr(match[2]),
     type |-> PyStr("in-text")]

\* the mention appended for a match of pattern2
numbered_mention(match) ==
    [number |-> PyStr(match), type |-> PyStr("numbered")]

\* the numbered mentions are listed before the in-text ones
extract_citations_numbered_first(s) ==
    LET matches1 == findall1(s, 1)
        matches2 == findall2(s, 1)
    IN Return([i \in 1..Len(matches2) |-> numbered_mention(matches2[i])]
              \o [i \in 1..Len(matches1) |-> in_text_mention(matches1[i])])

extract_citations(s) ==
    LET matches1 == findall1(s, 1)
        matches2 == findall2(s, 1)
    IN Return([i \in 1..Len(matches1) |-> in_text_mention(matches1[i])]
              \o [i \in 1..Len(matches2) |-> numbered_mention(matches2[i])])

---------------------------------------------------------------------------
(* format_citation *)

\* list[i] of Python, i counted from 0
getitem(list, i) ==
    IF i < Len(list) THEN Return(list[i + 1]) ELSE Raise("IndexError")

\* sep.join(list)
RECURSIVE join(_, _)
join(sep, list) ==
    IF Len(list) = 0 THEN ""
    ELSE IF Len(list) = 1 THEN list[1]
    ELSE list[1] \o sep \o join(sep, Tail(list))

\* str.split(): the maximal runs of non-whitespace characters, from p on
RECURSIVE split(_, _)
split(s, p) ==
    LET start == p + RunLen(s, p, Whitespace)
        stop == start + RunLen(s, start, {Ch(s, i) : i \in 1..Len(s)} \ Whitespace)
    IN IF start > Len(s) THEN <<>>
       ELSE <<SubSeq(s, start, stop - 1)>> \o split(s, stop)

\* two authors are rendered as three or more are
first_author_str_many(authors, two, many) ==
    IF Len(authors) = 1 THEN getitem(authors, 0)
    ELSE LET first == getitem(authors, 0)
         IN IF Raised(first) THEN first ELSE Return(first.val \o many)

\* the authors clause built by an "A", "A <two> B", "A<many>" style from the
\* first author, as _format_apa, _format_mla and _format_harvard build it
first_author_str(authors, two, many) ==
    IF Len(authors) = 1 THEN getitem(authors, 0)
    ELSE IF Len(authors) = 2
    THEN Return(authors[1] \o two \o authors[2])
    ELSE LET first == getitem(authors, 0)
         IN IF Raised(first) THEN first ELSE Return(first.val \o many)

_format_apa(authors, year, title, journal, volume, issue, pages, doi) ==
    LET author_str == first_author_str(authors, " & ", " et al.")
    IN IF Raised(author_str) THEN author_str
       ELSE LET c0 == author_str.val \o " (" \o PyFormat(year) \o "). "
                      \o title \o "."
                c1 == IF journal # ""
                      THEN c0 \o " " \o journal
                           \o (IF volume # ""
                               THEN ", " \o volume
                                    \o (IF issue # ""
                                        THEN "(" \o issue \o ")" ELSE "")
                               ELSE "")
                           \o (IF pages # "" THEN ", " \o pages ELSE "")
                      ELSE c0
                c2 == IF doi # "" THEN c1 \o ". https://doi.org/" \o doi
                      ELSE c1
            IN Return(c2)

\* the DOI is appended as in APA
_format_mla_with_doi(authors, year, title, journal, volume, issue, pages, doi) ==
    LET author_str == first_author_str(authors, ", and ", ", et al.")
    IN IF Raised(author_str) THEN author_str
       ELSE LET c0 == author_str.val \o ". \"" \o title \o ".\""
                c1 == IF journal # ""
                      THEN c0 \o " " \o journal
                           \o (IF volume # "" THEN ", vol. " \o volume ELSE "")
                           \o (IF issue # "" THEN ", no. " \o issue ELSE "")
                           \o ", " \o PyFormat(year)
                           \o (IF pages # "" THEN ", pp. " \o pages ELSE "")
                      ELSE c0
                c2 == IF doi # "" THEN c1 \o ". https://doi.org/" \o doi
                      ELSE c1
            IN Return(c2 \o ".")

_format_mla(authors, year, title, journal, volume, issue, pages, doi) ==
    LET author_str == first_author_str(authors, ", and ", ", et al.")
    IN IF Raised(author_str) THEN author_str
       ELSE LET c0 == author_str.val \o ". \"" \o title \o ".\""
                c1 == IF journal # ""
                      THEN c0 \o " " \o journal
                           \o (IF volume # "" THEN ", vol. " \o volume ELSE "")
                           \o (IF issue # "" THEN ", no. " \o issue ELSE "")
                           \o ", " \o PyFormat(year)
                           \o (IF pages # "" THEN ", pp. " \o pages ELSE "")
                      ELSE c0
            IN Return(c1 \o ".")

\* the year is written after the issue without parentheses
_format_chicago_bare_year(authors, year, title, journal, volume, issue, pages, doi) ==
    LET author_str == join(", ", authors)
        c0 == author_str \o ". \"" \o title \o ".\""
        c1 == IF journal # ""
              THEN c0 \o " " \o journal \o " " \o volume
                   \o (IF issue # "" THEN ", no. " \o issue ELSE "")
                   \o " " \o PyFormat(year)
                   \o (IF pages # "" THEN ": " \o pages ELSE "")
              ELSE c0
        c2 == IF doi # "" THEN c1 \o ". https://doi.org/" \o doi ELSE c1
    IN Return(c2 \o ".")

_format_chicago(authors, year, title, journal, volume, issue, pages, doi) ==
    LET author_str == join(", ", authors)
        c0 == author_str \o ". \"" \o title \o ".\""
        c1 == IF journal # ""
              THEN c0 \o " " \o journal \o " " \o volume
                   \o (IF issue # "" THEN ", no. " \o issue ELSE "")
                   \o " (" \o PyFormat(year) \o ")"
                   \o (IF pages # "" THEN ": " \o pages ELSE "")
              ELSE c0
        c2 == IF doi # "" THEN c1 \o ". https://doi.org/" \o doi ELSE c1
    IN Return(c2 \o ".")

\* only the first token of the name gives an initial
ieee_author_one_initial(author) ==
    LET parts == split(author, 1)
    IN IF Len(parts) >= 2
       THEN Ch(parts[1], 1) \o ". " \o parts[Len(parts)]
       ELSE author

\* the name _format_ieee renders for one author
ieee_author(author) ==
    LET parts == split(author, 1)
    IN IF Len(parts) >= 2
       THEN LET initials ==
                    join(". ", [i \in 1..(Len(parts) - 1) |-> Ch(parts[i], 1)])
                    \o "."
            IN initials \o " " \o parts[Len(parts)]
       ELSE author

_format_ieee(authors, year, title, journal, volume, issue, pages, doi) ==
    LET formatted_authors == [i \in 1..Len(authors) |-> ieee_author(authors[i])]
        author_str == IF Len(formatted_authors) > 3
                      THEN formatted_authors[1] \o " et al."
                      ELSE join(", ", formatted_authors)
        c0 == author_str \o ", \"" \o title \o ",\""
        c1 == IF journal # ""
              THEN c0 \o " " \o journal
                   \o (IF volume # "" THEN ", vol. " \o volume ELSE "")
                   \o (IF issue # "" THEN ", no. " \o issue ELSE "")
                   \o (IF pages # "" THEN ", pp. " \o pages ELSE "")
                   \o ", " \o PyFormat(year)
              ELSE c0
    IN Return(c1 \o ".")

\* the year is written in parentheses, as in APA
_format_harvard_apa_year(authors, year, title, journal, volume, issue, pages, doi) ==
    LET author_str == first_author_str(authors, " and ", " et al.")
    IN IF Raised(author_str) THEN author_str
       ELSE LET c0 == author_str.val \o " (" \o PyFormat(year) \o "), '"
                      \o title \o "'"
                c1 == IF journal # ""
                      THEN c0 \o ", " \o journal
                           \o (IF volume # "" THEN ", vol. " \o volume ELSE "")
                           \o (IF issue # "" THEN ", no. " \o issue ELSE "")
                           \o (IF pages # "" THEN ", pp. " \o pages ELSE "")
                      ELSE c0
            IN Return(c1 \o ".")

_format_harvard(authors, year, title, journal, volume, issue, pages, doi) ==
    LET author_str == first_author_str(authors, " and ", " et al.")
    IN IF Raised(author_str) THEN author_str
       ELSE LET c0 == author_str.val \o " " \o PyFormat(year) \o ", '"
                      \o title \o "'"
                c1 == IF journal # ""
                      THEN c0 \o ", " \o journal
                           \o (IF volume # "" THEN ", vol. " \o volume ELSE "")
                           \o (IF issue # "" THEN ", no. " \o issue ELSE "")
                           \o (IF pages # "" THEN ", pp. " \o pages ELSE "")
                      ELSE c0
            IN Return(c1 \o ".")

\* the style tags format_citation knows, each with its formatter
formatters ==
    [s \in {"APA 7th", "MLA 9th", "Chicago 17th", "IEEE", "Harvard"} |->
        CASE s = "APA 7th" -> "_format_apa"
          [] s = "MLA 9th" -> "_format_mla"
          [] s = "Chicago 17th" -> "_format_chicago"
          [] s = "IEEE" -> "_format_ieee"
          [] s = "Harvard" -> "_format_harvard"]

\* an unknown tag falls back to the second formatter of the table
formatters_get_mla(style) ==
    IF style \in DOMAIN formatters THEN formatters[style] ELSE "_format_mla"

\* formatters.get(style, self._format_apa)
formatters_get(style) ==
    IF style \in DOMAIN formatters THEN formatters[style] ELSE "_format_apa"

format_citation(authors, year, title, journal, volume, issue, pages, doi, style) ==
    LET formatter == formatters_get(style)
    IN CASE formatter = "_format_apa" ->
              _format_apa(authors, year, title, journal, volume, issue, pages, doi)
         [] formatter = "_format_mla" ->
              _format_mla(authors, year, title, journal, volume, issue, pages, doi)
         [] formatter = "_format_chicago" ->
              _format_chicago(authors, year, title, journal, volume, issue, pages, doi)
         [] formatter = "_format_ieee" ->
              _format_ieee(authors, year, title, journal, volume, issue, pages, doi)
         [] formatter = "_format_harvard" ->
              _format_harvard(authors, year, title, journal, volume, issue, pages, doi)

\* format_citation applied to a record of its arguments
format_record(a) ==
    format_citation(a.authors, a.year, a.title, a.journal, a.volume, a.issue,
                    a.pages, a.doi, a.style)

---------------------------------------------------------------------------
(* generate_bibliography *)

\* the characters of code points 32 to 95, in order
AsciiTo95 ==
    " !\"#$%&'()*+,-./0123456789:;<=>?@ABCDEFGHIJKLMNOPQRSTUVWXYZ[\\]^_"

\* the characters of code points 97 to 126, in order
AsciiFrom97 == "abcdefghijklmnopqrstuvwxyz{|}~"

\* the position of the character c in the string s
IndexIn(s, c) == CHOOSE i \in 1..Len(s) : Ch(s, i) = c

\* ord(c) of the characters a rendered citation is made of
OrdOf(c) ==
    IF c = "\n" THEN 10
    ELSE IF Contains(AsciiTo95, c) THEN 31 + IndexIn(AsciiTo95, c)
    ELSE 96 + IndexIn(AsciiFrom97, c)

\* the first position from i on at which a and b differ or one of them ends
RECURSIVE FirstDifference(_, _, _)
FirstDifference(a, b, i) ==
    IF i <= Len(a) /\ i <= Len(b) /\ Ch(a, i) = Ch(b, i)
    THEN FirstDifference(a, b, i + 1)
    ELSE i

\* a < b of two str values: by code point at the first difference, a proper
\* prefix before the longer string
StrLess(a, b) ==
    LET n == FirstDifference(a, b, 1)
    IN IF n > Len(b) THEN FALSE
       ELSE IF n > Len(a) THEN TRUE
       ELSE OrdOf(Ch(a, n)) < OrdOf(Ch(b, n))

\* the strings of list in ascending order, equal ones together
RECURSIVE Ascending(_)
Ascending(list) ==
    IF Len(list) <= 1 THEN list
    ELSE LET rest == Ascending(Tail(list))
             x == Head(list)
             k == Cardinality({i \in 1..Len(rest) : StrLess(rest[i], x)})
         IN SubSeq(rest, 1, k) \o <<x>> \o SubSeq(rest, k + 1, Len(rest))

\* the list is left in the order of its construction
sort_none(list) == list

\* list.sort() of a list of str
sort(list) == Ascending(list)

\* dict.get(key, default)
get(d, key, default) == IF key \in DOMAIN d THEN d[key] ELSE default

\* the formatted string, or the exception, of one record of the loop
format_entry(c, style) ==
    format_citation(get(c, "authors", <<>>), get(c, "year", PyStr("")),
                    get(c, "title", ""), get(c, "journal", ""),
                    get(c, "volume", ""), get(c, "issue", ""),
                    get(c, "pages", ""), get(c, "doi", ""), style)

generate_bibliography(records, style) ==
    LET entries == [i \in 1..Len(records) |-> format_entry(records[i], style)]
        failed == {i \in 1..Len(records) : Raised(entries[i])}
    IN IF failed # {}
       THEN entries[CHOOSE i \in failed : \A j \in failed : i <= j]
       ELSE LET bibliography_list == [i \in 1..Len(records) |-> entries[i].val]
            IN Return(join("\n\n", sort(bibliography_list)))

\* the records are taken off the caller's list as they are formatted
records_after_generate_consumed(records, style) == <<>>

\* the caller's list of records when generate_bibliography has returned:
\* the method builds and sorts a list of its own
records_after_generate(records, style) == records

---------------------------------------------------------------------------
(* Helpers.parse_authors *)

\* str.split(sep) from position p on: the pieces between the occurrences of
\* sep, the empty ones included
RECURSIVE split_sep(_, _, _)
split_sep(s, sep, p) ==
    LET found == {i \in p..(Len(s) - Len(sep) + 1) :
                     SubSeq(s, i, i + Len(sep) - 1) = sep}
    IN IF found = {} THEN <<SubSeq(s, p, Len(s))>>
       ELSE LET i == CHOOSE i \in found : \A j \in found : i <= j
            IN <<SubSeq(s, p, i - 1)>> \o split_sep(s, sep, i + Len(sep))

\* the end of the match of ,\s*&\s*|,\s* at the comma at position i, the
\* first alternative tried first
delimiter_end(s, i) ==
    LET spaces == RunLen(s, i + 1, Whitespace)
        amp == i + 1 + spaces
    IN IF amp <= Len(s) /\ Ch(s, amp) = "&"
       THEN amp + RunLen(s, amp + 1, Whitespace)
       ELSE i + spaces

\* re.split(r',\s*&\s*|,\s*', s) from position p on
RECURSIVE re_split(_, _)
re_split(s, p) ==
    LET commas == {i \in p..Len(s) : Ch(s, i) = ","}
    IN IF commas = {} THEN <<SubSeq(s, p, Len(s))>>
       ELSE LET i == CHOOSE i \in commas : \A j \in commas : i <= j
            IN <<SubSeq(s, p, i - 1)>> \o re_split(s, delimiter_end(s, i) + 1)

\* [author.strip() for author in authors if author.strip()]
RECURSIVE clean_up(_)
clean_up(authors) ==
    IF authors = <<>> THEN <<>>
    ELSE (IF strip(Head(authors)) # "" THEN <<strip(Head(authors))>> ELSE <<>>)
         \o clean_up(Tail(authors))

parse_authors(str) ==
    LET authors ==
            IF Contains(str, ";") THEN split_sep(str, ";", 1)
            ELSE IF Contains(str, ",") /\ Contains(str, "&")
            THEN re_split(str, 1)
            ELSE IF Contains(str, ",") THEN split_sep(str, ",", 1)
            ELSE IF Contains(str, " and ") THEN split_sep(str, " and ", 1)
            ELSE <<str>>
    IN Return(clean_up(authors))

---------------------------------------------------------------------------
(* GPT5Client.analyze_document *)

None == [none |-> TRUE]
IsNone(v) == "none" \in DOMAIN v

retry_attempts == 3
retry_delay == 1

\* Config.GPT5_MODEL when the environment does not set it
GPT5_MODEL == "gpt-5-nano"

\* not content or len(content.strip()) == 0
no_content(c) == c = "" \/ Len(strip(c)) = 0

\* the dictionary returned by the input validation
no_content_result == [success |-> FALSE, error |-> "No content provided for analysis"]

\* "Comet" if self.using_comet else "AI/ML"
api_used(comet) == IF comet THEN "Comet" ELSE "AI/ML"

\* the text taken from a response: a response is None or has a list of
\* choices, each the content of its message (a str or None), and a usage
response_content(response) ==
    IF ~IsNone(response) /\ response.choices # <<>>
    THEN LET c == response.choices[1]
         IN IF IsNone(c) \/ c = PyStr("")
            THEN "The API returned an empty response. This might be due to content filtering or model limitations. Please try with different content or a shorter text."
            ELSE c.str
    ELSE "Error: Invalid response from API. Please try again."

\* usage_info: None when the response has no usage attribute, the counts
\* of the usage otherwise, 0 for those it does not give
usage_info(response) ==
    IF IsNone(response) THEN None
    ELSE IF IsNone(response.usage)
    THEN [prompt_tokens |-> 0, completion_tokens |-> 0, total_tokens |-> 0]
    ELSE response.usage

\* the dictionary returned without the key analysis
success_result_no_analysis(response, comet) ==
    [success |-> TRUE,
     usage |-> usage_info(response),
     model_used |-> GPT5_MODEL,
     api_used |-> api_used(comet)]

\* the dictionary returned when the request has returned
success_result(response, comet) ==
    [success |-> TRUE,
     analysis |-> response_content(response),
     usage |-> usage_info(response),
     model_used |-> GPT5_MODEL,
     api_used |-> api_used(comet)]

\* the dictionary returned when the last attempt has raised e
failure_result(e, comet) ==
    [success |-> FALSE,
     error |-> e.message,
     error_type |-> e.type,
     message |-> "API call failed after 3 attempts. Please check your API key, internet connection, and try again.",
     model_used |-> GPT5_MODEL,
     api_used |-> api_used(comet)]

\* the same wait after every failed attempt
backoff_constant(n) == retry_delay

\* the argument of time.sleep after the failure of attempt n (from 0)
backoff(n) == retry_delay * (n + 1)

---------------------------------------------------------------------------
(* FileProcessor.chunk_text *)

\* the for loop over the words, from its state before a word to the list of
\* chunks returned
RECURSIVE chunk_loop(_, _, _, _, _)
chunk_loop(words, max_chunk_size, chunk_list, current_chunk, current_size) ==
    IF words = <<>>
    THEN IF current_chunk # <<>>
         THEN Append(chunk_list, join(" ", current_chunk))
         ELSE chunk_list
    ELSE LET word == Head(words)
             word_size == Len(word) + 1
         IN IF current_size + word_size > max_chunk_size
            THEN chunk_loop(Tail(words), max_chunk_size,
                            Append(chunk_list, join(" ", current_chunk)),
                            <<word>>, word_size)
            ELSE chunk_loop(Tail(words), max_chunk_size, chunk_list,
                            Append(current_chunk, word),
                            current_size + word_size)

chunk_text(str, max_chunk_size) ==
    Return(chunk_loop(split(str, 1), max_chunk_size, <<>>, <<>>, 0))

---------------------------------------------------------------------------
(* Helpers.truncate_text *)

\* s[:k]: the first k characters, or all but the last -k when k < 0
slice_to(s, k) ==
    IF k >= 0 THEN SubSeq(s, 1, IF k < Len(s) THEN k ELSE Len(s))
    ELSE SubSeq(s, 1, Len(s) + k)

truncate_text(str, max_length, suffix) ==
    IF Len(str) <= max_length THEN Return(str)
    ELSE Return(slice_to(str, max_length - Len(suffix)) \o suffix)

---------------------------------------------------------------------------
(* Validators.validate_year *)

\* the years from 1500 on are accepted, as validate_citation accepts them
validate_year_from_1500(year) ==
    LET year_int == int(year)
    IN IF Returned(year_int)
       THEN Return(1500 <= year_int.val /\ year_int.val <= 2030)
       ELSE IF year_int.exc \in {"ValueError", "TypeError"} THEN Return(FALSE)
       ELSE year_int

validate_year(year) ==
    LET year_int == int(year)
    IN IF Returned(year_int)
       THEN Return(1900 <= year_int.val /\ year_int.val <= 2030)
       ELSE IF year_int.exc \in {"ValueError", "TypeError"} THEN Return(FALSE)
       ELSE year_int

---------------------------------------------------------------------------
(* GPT5Client: the operations other than analyze_document *)

\* not v, for v a str, a list or None
Falsy(v) == IsNone(v) \/ ~Truthy(v)

\* not s or len(s.strip()) == 0
blank(s) == Falsy(s) \/ Len(strip(s.str)) = 0

\* the dictionary an input validation returns
validation_failed(error) == [success |-> FALSE, error |-> error]

\* the input validation of generate_literature_review: the dictionary
\* returned, None when the arguments pass
generate_literature_review_validation(papers, research_question) ==
    IF Falsy(papers) \/ Len(papers.list) = 0
    THEN validation_failed("No papers provided for literature review")
    ELSE IF blank(research_question)
    THEN validation_failed("No research question provided")
    ELSE None

\* the input validation of generate_hypotheses
generate_hypotheses_validation(research_area, literature_summary) ==
    IF blank(research_area)
    THEN validation_failed("No research area provided")
    ELSE IF blank(literature_summary)
    THEN validation_failed("No literature summary provided")
    ELSE None

\* one study is enough
conduct_meta_analysis_validation_one_study(papers, research_question) ==
    IF Falsy(papers) \/ Len(papers.list) < 1
    THEN validation_failed("At least 2 studies required for meta-analysis")
    ELSE IF blank(research_question)
    THEN validation_failed("No research question provided")
    ELSE None

\* the input validation of conduct_meta_analysis
conduct_meta_analysis_validation(papers, research_question) ==
    IF Falsy(papers) \/ Len(papers.list) < 2
    THEN validation_failed("At least 2 studies required for meta-analysis")
    ELSE IF blank(research_question)
    THEN validation_failed("No research question provided")
    ELSE None

\* the input validation of generate_research_synthesis, of
\* generate_bibliography and of analyze_citations
no_papers_validation(papers, purpose) ==
    IF Falsy(papers) \/ Len(papers.list) = 0
    THEN validation_failed("No papers provided for " \o purpose)
    ELSE None

\* the papers generate_literature_review reads, and of each the characters
paper_count_limit == 10
paper_length_limit == 3000

\* the papers that are not blank among the first ten, cut to their first
\* 3000 characters and joined
combined_content(papers) ==
    LET first == SubSeq(papers, 1, IF Len(papers) < paper_count_limit
                                   THEN Len(papers) ELSE paper_count_limit)
        kept == SelectSeq(first, LAMBDA paper : paper # "" /\ Len(strip(paper)) > 0)
    IN join("\n\n---NEW PAPER---\n\n",
            [i \in 1..Len(kept) |-> slice_to(kept[i], paper_length_limit)])

\* the default of the parameter num_hypotheses
num_hypotheses == 5

\* what a method returns before it sends a request, None when it goes on
\* to the request: the input validation, and in generate_literature_review
\* the check of the combined content
returns_before_request(c) ==
    CASE c.operation = "generate_literature_review" ->
            LET invalid == generate_literature_review_validation(c.papers, c.research_question)
            IN IF ~IsNone(invalid) THEN invalid
               ELSE IF combined_content(c.papers.list) = ""
               THEN validation_failed("No valid paper content found")
               ELSE None
      [] c.operation = "generate_hypotheses" ->
            generate_hypotheses_validation(c.research_area, c.literature_summary)
      [] c.operation = "conduct_meta_analysis" ->
            conduct_meta_analysis_validation(c.papers, c.research_question)
      [] c.operation = "generate_research_synthesis" ->
            no_papers_validation(c.papers, "synthesis")
      [] c.operation = "generate_bibliography" ->
            no_papers_validation(c.papers, "bibliography")
      [] c.operation = "analyze_citations" ->
            no_papers_validation(c.papers, "citation analysis")
      [] OTHER -> None

\* the response has a first choice
has_choice(response) == ~IsNone(response) /\ response.choices # <<>>

\* the content of the first choice, a notice in its place when it is None,
\* empty or blank, and another when the response has no choice
checked_content(response, empty_notice, invalid_notice) ==
    IF has_choice(response)
    THEN LET c == response.choices[1]
         IN IF Falsy(c) \/ strip(c.str) = "" THEN empty_notice ELSE c.str
    ELSE invalid_notice

\* response.choices[0].message.content or default, "" when the response
\* has no choice
content_or(response, default) ==
    IF has_choice(response)
    THEN LET c == response.choices[1] IN IF Falsy(c) THEN default ELSE c.str
    ELSE ""

\* the dictionary returned when the request has returned
operation_returns(c, response, comet) ==
    CASE c.operation = "generate_literature_review" ->
            [success |-> TRUE,
             review |-> checked_content(response,
                 "Literature review generation completed but returned empty content. This may be due to content filtering or API limitations. Please try with shorter papers or a different research question. Papers analyzed: " \o NatToStr(Len(c.papers.list)),
                 "Error: Unable to generate literature review due to invalid API response. Please try again."),
             paper_count |-> Len(c.papers.list),
             model_used |-> GPT5_MODEL,
             api_used |-> api_used(comet)]
      [] c.operation = "compare_documents" ->
            [success |-> TRUE,
             comparison |-> content_or(response, "No comparison results returned.")]
      [] c.operation = "answer_research_question" ->
            [success |-> TRUE,
             answer |-> content_or(response, "No answer generated.")]
      [] c.operation = "generate_hypotheses" ->
            [success |-> TRUE,
             hypotheses |-> checked_content(response,
                 "Hypothesis generation completed but returned empty content. This may be due to content filtering or API limitations. Please try with a different research area or more detailed literature summary. Research area: " \o c.research_area.str,
                 "Error: Unable to generate hypotheses due to invalid API response. Please try again."),
             research_area |-> c.research_area.str,
             num_requested |-> num_hypotheses,
             model_used |-> GPT5_MODEL,
             api_used |-> api_used(comet)]
      [] c.operation = "conduct_meta_analysis" ->
            [success |-> TRUE,
             analysis |-> checked_content(response,
                 "Meta-analysis completed but returned empty content. This may be due to content filtering or API limitations. Please try with fewer studies or a different research question. Studies analyzed: " \o NatToStr(Len(c.papers.list)),
                 "Error: Unable to conduct meta-analysis due to invalid API response. Please try again."),
             study_count |-> Len(c.papers.list),
             analysis_type |-> "Effect Size Analysis",
             statistical_method |-> "Random Effects Model",
             model_used |-> GPT5_MODEL,
             api_used |-> api_used(comet)]
      [] c.operation = "generate_research_synthesis" ->
            [success |-> TRUE,
             synthesis |-> checked_content(response,
                 "Research synthesis completed but returned empty content. This may be due to content filtering or API limitations. Please try with fewer papers or adjust the research focus. Papers analyzed: " \o NatToStr(Len(c.papers.list)),
                 "Error: Unable to generate research synthesis due to invalid API response. Please try again."),
             paper_count |-> Len(c.papers.list),
             synthesis_type |-> "Concept Mapping",
             model_used |-> GPT5_MODEL,
             api_used |-> api_used(comet)]
      [] c.operation = "generate_bibliography" ->
            [success |-> TRUE,
             bibliography |-> checked_content(response,
                 "Bibliography generation completed but returned empty content. This may be due to insufficient paper metadata. Papers processed: " \o NatToStr(Len(c.papers.list)),
                 "Error: Unable to generate bibliography due to invalid API response. Please try again."),
             paper_count |-> Len(c.papers.list),
             format_style |-> "APA 7th",
             model_used |-> GPT5_MODEL,
             api_used |-> api_used(comet)]
      [] c.operation = "format_citation" ->
            [success |-> TRUE,
             citation |-> checked_content(response,
                 "Citation formatting completed but returned empty content. Please check the source information provided.",
                 "Error: Unable to format citation due to invalid API response. Please try again."),
             format_style |-> "APA 7th",
             source_type |-> get(c.source_info, "type", "Unknown"),
             model_used |-> GPT5_MODEL,
             api_used |-> api_used(comet)]
      [] c.operation = "analyze_citations" ->
            [success |-> TRUE,
             analysis |-> checked_content(response,
                 "Citation analysis completed but returned empty content. This may be due to limited citation information in the provided papers. Papers analyzed: " \o NatToStr(Len(c.papers.list)),
                 "Error: Unable to analyze citations due to invalid API response. Please try again."),
             paper_count |-> Len(c.papers.list),
             model_used |-> GPT5_MODEL,
             api_used |-> api_used(comet)]

\* the words the message of the except clause starts with, "" for the two
\* methods whose except clause returns the error alone
failed_to(operation) ==
    CASE operation = "generate_literature_review" -> "Failed to generate literature review: "
      [] operation = "generate_hypotheses" -> "Failed to generate hypotheses: "
      [] operation = "conduct_meta_analysis" -> "Failed to conduct meta-analysis: "
      [] operation = "generate_research_synthesis" -> "Failed to generate research synthesis: "
      [] operation = "generate_bibliography" -> "Failed to generate bibliography: "
      [] operation = "format_citation" -> "Failed to format citation: "
      [] operation = "analyze_citations" -> "Failed to analyze citations: "
      [] OTHER -> ""

\* the dictionary returned by the except clause when the request has
\* raised e
operation_raises(c, e) ==
    IF failed_to(c.operation) = ""
    THEN [success |-> FALSE, error |-> e.message]
    ELSE [success |-> FALSE,
          error |-> e.message,
          error_type |-> e.type,
          message |-> failed_to(c.operation) \o e.message]

---------------------------------------------------------------------------
(* validate_citation *)

\* the title is not among the required fields
required_fields_no_title == <<"authors", "year">>

required_fields == <<"authors", "year", "title">>

\* the loop over required_fields returns False
field_missing(c) ==
    \E i \in 1..Len(required_fields) :
        \/ required_fields[i] \notin DOMAIN c
        \/ ~Truthy(c[required_fields[i]])

\* the body of the try block, with the year the clock shows
try_year(c, clock) ==
    LET year == int(c["year"])
    IN IF Raised(year) THEN year
       ELSE IF year.val < 1500 \/ year.val > clock + 1 THEN Return(FALSE)
       ELSE Return(TRUE)

\* an except clause for ValueError alone: any other exception propagates
except_value_error(r) ==
    IF Raised(r) /\ r.exc = "ValueError" THEN Return(FALSE) ELSE r

\* the bare except clause: whatever the try block raised, return False
except_all(r) == IF Raised(r) THEN Return(FALSE) ELSE r

validate_citation(c, clock) ==
    IF field_missing(c) THEN Return(FALSE)
    ELSE except_all(try_year(c, clock))

---------------------------------------------------------------------------
(* The inputs the calls are made with *)

\* pieces of running text, of citations and of near-citations
Fragments ==
    {"(Smith, 2023)", "(Smith & Jones 2021)", "(Lee,1999)", "(smith, 2023)",
     "Smith (2023)", "Jones et al. (2022)", "[4]", "[007]", "[]", "[4a]",
     " see ", "(Smith, ", "2023)", "20"}

\* the example of the specification and the text of test_extract_citations
SpecExample ==
    "According to Smith (2023), models improve accuracy. See also [4] for a survey."
TestExample ==
    "According to Smith (2023), this is important. Jones et al. (2022) disagree."

RECURSIVE Concatenations(_)
Concatenations(n) ==
    IF n = 0 THEN {""}
    ELSE LET shorter == Concatenations(n - 1)
         IN shorter \cup {t \o f : t \in shorter, f \in Fragments}

Texts == Concatenations(MaxFragments) \cup {SpecExample, TestExample}

Names == {"Smith, J.", "Jones, K.", "John Paul Smith", "Plato"}
AuthorLists == UNION {[1..n -> Names] : n \in 0..MaxAuthors}
KnownStyles == DOMAIN formatters
Styles == KnownStyles \cup {"Vancouver"}

FormatArgs ==
    [authors : AuthorLists, year : {PyInt(2023)}, title : {"Test Article"},
     journal : {"", "Test Journal"}, volume : {"", "10"}, issue : {"", "2"},
     pages : {"", "100-110"}, doi : {"", "10.1000/xyz"}, style : Styles]

\* a dictionary with the keys among authors, year and title that are given
\* a value; a, y and t are <<>> (key absent) or <<value>>
Dict(a, y, t) ==
    LET keys == {k \in {"authors", "year", "title"} :
                    \/ k = "authors" /\ a # <<>>
                    \/ k = "year" /\ y # <<>>
                    \/ k = "title" /\ t # <<>>}
    IN [k \in keys |-> IF k = "authors" THEN a[1]
                       ELSE IF k = "year" THEN y[1] ELSE t[1]]

Optional(S) == {<<>>} \cup {<<v>> : v \in S}

AuthorsValues == {PyList(<<>>), PyList(<<"Smith, J.">>)}
TitleValues == {PyStr(""), PyStr("Test Article")}
YearValues ==
    {PyInt(y) : y \in {0 - 5, 0, 1499, 1500, 1800, 1899, 1900, 2023, 2030, 2031}
                      \cup (FirstYear..(FirstYear + ClockYears + 2))}
    \cup {PyStr("2023"), PyStr(" 1800 "), PyStr("-7"), PyStr("invalid"),
          PyStr("20x3"), PyStr(""), PyList(<<>>), PyList(<<"2023">>)}

Citations ==
    {Dict(a, y, t) : a \in Optional(AuthorsValues), y \in Optional(YearValues),
                     t \in Optional(TitleValues)}

\* the records bibliographies are generated from; the last one has no
\* authors key
BibRecords ==
    {[authors |-> a, year |-> PyInt(y), title |-> "Test Article"] :
        a \in {<<"Smith, J.">>, <<"Adams, A.">>, <<"de Vries, H.">>},
        y \in {1999, 2023}}
    \cup {[year |-> PyInt(2023), title |-> "Untitled"]}

RecordLists == UNION {[1..n -> BibRecords] : n \in 0..MaxRecords}

\* the arguments of the calls made on one manager, one after the other
ManagerTexts == {SpecExample, "(Smith & Jones 2021)[4]"}

ManagerFormatArgs ==
    [authors : {<<"Smith, J.", "Jones, K.">>}, year : {PyInt(2023)},
     title : {"Test Article"}, journal : {"Test Journal"}, volume : {"10"},
     issue : {"2"}, pages : {"100-110"}, doi : {"10.1000/xyz"},
     style : {"APA 7th", "IEEE"}]

ManagerCitations ==
    {Dict(<<PyList(<<"Smith, J.">>)>>, <<y>>, <<PyStr("Test Article")>>) :
        y \in {PyInt(2023), PyInt(FirstYear + 2), PyStr("invalid")}}

ManagerRecordLists ==
    {<<>>,
     <<[authors |-> <<"Smith, J.">>, year |-> PyInt(2023), title |-> "Test Article"],
       [authors |-> <<"Adams, A.">>, year |-> PyInt(1999), title |-> "Test Article"]>>,
     <<[authors |-> <<"Smith, J.">>, year |-> PyInt(2023), title |-> "Test Article"],
       [year |-> PyInt(2023), title |-> "Untitled"]>>}

\* authors in "Surname, I." form and plain names
Surnames == {"Smith, J.", "Jones, K.", "Williams, R."}
PlainNames == {"Plato", "John Smith"}
NameLists(S) == UNION {[1..n -> S] : n \in 1..MaxAuthors}

\* the names separated by "; "
SemicolonForm(names) == join("; ", names)

\* the names separated by ", ", the last one preceded by ", & "
AmpersandForm(names) ==
    IF Len(names) = 1 THEN names[1]
    ELSE join(", ", SubSeq(names, 1, Len(names) - 1))
         \o ", & " \o names[Len(names)]

AuthorStrings ==
    {SemicolonForm(l) : l \in NameLists(Surnames)}
    \cup {AmpersandForm(l) : l \in NameLists(Surnames)}
    \cup {join(", ", l) : l \in NameLists(PlainNames)}
    \cup {join(" and ", l) : l \in NameLists(PlainNames)}
    \cup {""}

\* the documents given to analyze_document
Contents ==
    {"", " ", " \n\t", "This is a test document for analysis.", " x ", "Abstract"}

\* what the chat-completion request returns
Responses ==
    {None}
    \cup [choices : {<<>>, <<None>>, <<PyStr("")>>, <<PyStr("Summary.")>>,
                     <<PyStr("Summary."), PyStr("Other.")>>},
          usage : {None, [prompt_tokens |-> 12, completion_tokens |-> 30,
                          total_tokens |-> 42]}]

\* what the chat-completion request raises
Errors ==
    {[type |-> "APIConnectionError", message |-> "Connection error."],
     [type |-> "RateLimitError", message |-> "Rate limit exceeded"]}

\* the papers, the questions and the summaries given to the other methods
PaperTexts == {"", " \n", "Study A."}
PaperLists ==
    {None} \cup {PyList(l) : l \in UNION {[1..n -> PaperTexts] : n \in 0..MaxPapers}}
Questions == {None, PyStr(""), PyStr(" \t"), PyStr("Does X cause Y?")}
PaperRecords ==
    {[filename |-> "a.pdf", content |-> "Study A."], [content |-> "Study B."]}
SourceInfos ==
    {[type |-> "journal", title |-> "Test Article"], [title |-> "Test Article"]}

\* the calls of the methods other than analyze_document
Calls ==
    [operation : {"generate_literature_review", "conduct_meta_analysis"},
     papers : PaperLists, research_question : Questions]
    \cup [operation : {"generate_hypotheses"},
          research_area : Questions, literature_summary : Questions]
    \cup [operation : {"generate_research_synthesis", "analyze_citations"},
          papers : PaperLists]
    \cup [operation : {"generate_bibliography"},
          papers : {None} \cup {PyList(l) : l \in UNION {[1..n -> PaperRecords] : n \in 0..MaxPapers}}]
    \cup [operation : {"compare_documents"},
          documents : {PyList(<<"Study A.", "Study B.">>)}]
    \cup [operation : {"answer_research_question"},
          question : {PyStr("Does X cause Y?")}, context : {PyStr("Study A.")}]
    \cup [operation : {"format_citation"}, source_info : SourceInfos]

\* no method other than analyze_document is called
NoCall == call = [operation |-> ""]

\* the texts given to chunk_text: words separated by a space
Words == {"a", "word", "abcdefghijkl"}
ChunkTexts == {join(" ", l) : l \in UNION {[1..n -> Words] : n \in 0..MaxWords}}
ChunkArgs == [text : ChunkTexts, max_chunk_size : 1..MaxChunkSize]

TruncateArgs ==
    [text : {"", "abc", "This is a long text that needs to be truncated"},
     max_length : 0..MaxLength, suffix : {"", ".", "..."}]

\* the years around the limits 1900 and 2030 and those of test_validate_year
YearInts ==
    {0 - 5, 0, 1800, 2023} \cup ((1900 - YearMargin)..(1900 + YearMargin))
    \cup ((2030 - YearMargin)..(2030 + YearMargin))
YearArgs ==
    {PyInt(y) : y \in YearInts}
    \cup {PyStr(NatToStr(y)) : y \in YearInts \ {0 - 5}}
    \cup {PyStr("invalid"), PyStr(""), PyStr(" 2023 "), PyStr("-5"),
          PyStr("2023.5"), PyStr("20x3")}
    \cup {PyFloat(2023, 5), PyFloat(1899, 9), PyFloat(2030, 9), Infinity, NaN}
    \cup {None, PyList(<<>>), PyList(<<"2023">>)}

---------------------------------------------------------------------------
(* The state machine *)

\* The state after construction, no call made yet
Init ==
    /\ citations = <<>>
    /\ now = FirstYear
    /\ called = ""
    /\ extracted = Return(<<>>)
    /\ formatted = Return("")
    /\ valid = Return(FALSE)
    /\ earlier = {}
    /\ bibliography = Return("")
    /\ format_outcomes = {}

\* Each method is a function of its arguments; the caller holds the
\* arguments of the calls to come, and the calls a specification does not
\* make have none
NoText == text = ""
NoFormatArgs ==
    fmt_args = [authors |-> <<>>, year |-> PyInt(0), title |-> "",
                journal |-> "", volume |-> "", issue |-> "", pages |-> "",
                doi |-> "", style |-> ""]
NoCitation == citation = Dict(<<>>, <<>>, <<>>)
NoRecords == bib_records = <<>> /\ bib_style = ""

\* Helpers.parse_authors is not called
HelpersUnused == authors_str = "" /\ parsed = Return(<<>>)

\* no GPT5Client method is called
ClientUnused ==
    /\ using_comet = TRUE
    /\ content = ""
    /\ pc = "idle"
    /\ attempt = 0
    /\ api_calls = <<>>
    /\ slept = <<>>
    /\ result = <<>>
    /\ NoCall

\* the arguments of the utilities, when one of them is not called
NoChunkArgs == chunk_args = [text |-> "", max_chunk_size |-> 0]
NoTruncateArgs == truncate_args = [text |-> "", max_length |-> 0, suffix |-> ""]
NoYear == year_value = PyInt(0)

\* no utility has been called
UtilsNotCalled ==
    /\ chunks = Return(<<>>)
    /\ truncated = Return("")
    /\ year_valid = Return(FALSE)

UtilsUnused == UtilsNotCalled /\ NoChunkArgs /\ NoTruncateArgs /\ NoYear

OthersUnused == HelpersUnused /\ ClientUnused /\ UtilsUnused

InitExtract ==
    /\ Init /\ NoFormatArgs /\ NoCitation /\ NoRecords /\ OthersUnused
    /\ text \in Texts
InitFormat ==
    /\ Init /\ NoText /\ NoCitation /\ NoRecords /\ OthersUnused
    /\ fmt_args \in FormatArgs
InitValidate ==
    /\ Init /\ NoText /\ NoFormatArgs /\ NoRecords /\ OthersUnused
    /\ citation \in Citations
InitBibliography ==
    /\ Init /\ NoText /\ NoFormatArgs /\ NoCitation /\ OthersUnused
    /\ bib_records \in RecordLists
    /\ bib_style \in Styles

\* manager.extract_citations(text)
ExtractCitations ==
    /\ called' = "extract_citations"
    /\ extracted' = extract_citations(text)
    /\ UNCHANGED <<citations, now, text, fmt_args, formatted, citation, valid,
                   earlier>>
    /\ UNCHANGED <<bibVars, helperVars, clientVars, utilVars, format_outcomes>>

\* the manager keeps the first citation it has formatted and returns an
\* empty string afterwards
FormatCitationOnce ==
    /\ called' = "format_citation"
    /\ formatted' = IF format_outcomes = {} THEN format_record(fmt_args)
                    ELSE Return("")
    /\ format_outcomes' = format_outcomes \cup {<<fmt_args, formatted'>>}
    /\ UNCHANGED <<citations, now, text, extracted, fmt_args, citation, valid,
                   earlier>>
    /\ UNCHANGED <<bibVars, helperVars, clientVars, utilVars>>

\* manager.format_citation(**fmt_args)
FormatCitation ==
    /\ called' = "format_citation"
    /\ formatted' = format_record(fmt_args)
    /\ format_outcomes' = format_outcomes \cup {<<fmt_args, formatted'>>}
    /\ UNCHANGED <<citations, now, text, extracted, fmt_args, citation, valid,
                   earlier>>
    /\ UNCHANGED <<bibVars, helperVars, clientVars, utilVars>>

\* manager.validate_citation(citation)
ValidateCitation ==
    /\ called' = "validate_citation"
    /\ valid' = validate_citation(citation, now)
    /\ earlier' = IF called = "validate_citation" THEN {valid} ELSE {}
    /\ UNCHANGED <<citations, now, text, extracted, fmt_args, formatted,
                   citation>>
    /\ UNCHANGED <<bibVars, helperVars, clientVars, utilVars, format_outcomes>>

\* the calendar year of the clock advances
NewYear ==
    /\ now < FirstYear + ClockYears
    /\ now' = now + 1
    /\ UNCHANGED <<citations, called, text, extracted, fmt_args, formatted,
                   citation, valid, earlier>>
    /\ UNCHANGED <<bibVars, helperVars, clientVars, utilVars, format_outcomes>>

\* manager.generate_bibliography(bib_records, bib_style)
GenerateBibliography ==
    /\ called' = "generate_bibliography"
    /\ bibliography' = generate_bibliography(bib_records, bib_style)
    /\ bib_records' = records_after_generate(bib_records, bib_style)
    /\ UNCHANGED <<citations, now, text, extracted, fmt_args, formatted,
                   citation, valid, earlier, bib_style>>
    /\ UNCHANGED <<helperVars, clientVars, utilVars, format_outcomes>>

ValidateNext == ValidateCitation \/ NewYear

SpecExtract == InitExtract /\ [][ExtractCitations]_vars
SpecFormat == InitFormat /\ [][FormatCitation]_vars
SpecValidate == InitValidate /\ [][ValidateNext]_vars
SpecBibliography == InitBibliography /\ [][GenerateBibliography]_vars

\* the four methods called on one manager in any order, any number of times
InitManager ==
    /\ Init /\ OthersUnused
    /\ text \in ManagerTexts
    /\ fmt_args \in ManagerFormatArgs
    /\ citation \in ManagerCitations
    /\ bib_records \in ManagerRecordLists
    /\ bib_style \in {"Chicago 17th", "Harvard"}

ManagerNext ==
    \/ ExtractCitations
    \/ FormatCitation
    \/ GenerateBibliography
    \/ ValidateCitation
    \/ NewYear

SpecManager == InitManager /\ [][ManagerNext]_vars

\* format_citation called again and again, with the same and with other
\* arguments, calls of extract_citations and years in between
InitFormatAgain ==
    /\ Init /\ NoCitation /\ NoRecords /\ OthersUnused
    /\ text \in ManagerTexts
    /\ fmt_args \in ManagerFormatArgs

\* the caller takes another record or style for the next call
OtherArguments ==
    /\ fmt_args' \in ManagerFormatArgs \ {fmt_args}
    /\ UNCHANGED <<citations, now, called, text, extracted, formatted,
                   citation, valid, earlier, format_outcomes>>
    /\ UNCHANGED <<bibVars, helperVars, clientVars, utilVars>>

FormatAgainNext ==
    \/ FormatCitation
    \/ OtherArguments
    \/ ExtractCitations
    \/ NewYear

SpecFormatAgain == InitFormatAgain /\ [][FormatAgainNext]_vars

\* no CitationManager method is called
ManagerUnused == Init /\ NoText /\ NoFormatArgs /\ NoCitation /\ NoRecords

InitParse ==
    /\ ManagerUnused /\ ClientUnused /\ UtilsUnused
    /\ parsed = Return(<<>>)
    /\ authors_str \in AuthorStrings

\* Helpers.parse_authors(authors_str)
ParseAuthors ==
    /\ called' = "parse_authors"
    /\ parsed' = parse_authors(authors_str)
    /\ UNCHANGED <<citations, now, text, extracted, fmt_args, formatted,
                   citation, valid, earlier, bibVars, authors_str, clientVars>>
    /\ UNCHANGED <<utilVars, format_outcomes>>

SpecParse == InitParse /\ [][ParseAuthors]_vars

InitClient ==
    /\ ManagerUnused /\ HelpersUnused /\ UtilsUnused
    /\ pc = "idle"
    /\ attempt = 0
    /\ api_calls = <<>>
    /\ slept = <<>>
    /\ result = <<>>
    /\ NoCall
    /\ using_comet \in BOOLEAN
    /\ content \in Contents

\* client.analyze_document(content) is called: the input validation
AnalyzeDocument ==
    /\ pc = "idle"
    /\ called' = "analyze_document"
    /\ IF no_content(content)
       THEN pc' = "done" /\ result' = no_content_result
       ELSE pc' = "request" /\ result' = result
    /\ attempt' = 0
    /\ UNCHANGED <<using_comet, content, api_calls, slept, call>>
    /\ UNCHANGED <<managerVars, helperVars, utilVars>>

\* the request of the current attempt returns a response
RequestReturns ==
    /\ pc = "request"
    /\ \E response \in Responses :
            result' = success_result(response, using_comet)
    /\ api_calls' = Append(api_calls, "returned")
    /\ pc' = "done"
    /\ UNCHANGED <<called, using_comet, content, attempt, slept, call>>
    /\ UNCHANGED <<managerVars, helperVars, utilVars>>

\* the request of the current attempt raises: sleep and try again, or
\* give up when it was the last attempt
RequestRaises ==
    /\ pc = "request"
    /\ api_calls' = Append(api_calls, "raised")
    /\ IF attempt < retry_attempts - 1
       THEN /\ slept' = Append(slept, backoff(attempt))
            /\ attempt' = attempt + 1
            /\ UNCHANGED <<pc, result>>
       ELSE /\ \E e \in Errors : result' = failure_result(e, using_comet)
            /\ pc' = "done"
            /\ UNCHANGED <<attempt, slept>>
    /\ UNCHANGED <<called, using_comet, content, call>>
    /\ UNCHANGED <<managerVars, helperVars, utilVars>>

InitChunk ==
    /\ ManagerUnused /\ HelpersUnused /\ ClientUnused
    /\ UtilsNotCalled /\ NoTruncateArgs /\ NoYear
    /\ chunk_args \in ChunkArgs
InitTruncate ==
    /\ ManagerUnused /\ HelpersUnused /\ ClientUnused
    /\ UtilsNotCalled /\ NoChunkArgs /\ NoYear
    /\ truncate_args \in TruncateArgs
InitYear ==
    /\ ManagerUnused /\ HelpersUnused /\ ClientUnused
    /\ UtilsNotCalled /\ NoChunkArgs /\ NoTruncateArgs
    /\ year_value \in YearArgs

\* FileProcessor.chunk_text(text, max_chunk_size)
ChunkText ==
    /\ called' = "chunk_text"
    /\ chunks' = chunk_text(chunk_args.text, chunk_args.max_chunk_size)
    /\ UNCHANGED <<chunk_args, truncate_args, truncated, year_value, year_valid>>
    /\ UNCHANGED <<managerVars, helperVars, clientVars>>

\* Helpers.truncate_text(text, max_length, suffix)
TruncateText ==
    /\ called' = "truncate_text"
    /\ truncated' = truncate_text(truncate_args.text, truncate_args.max_length, truncate_args.suffix)
    /\ UNCHANGED <<chunk_args, chunks, truncate_args, year_value, year_valid>>
    /\ UNCHANGED <<managerVars, helperVars, clientVars>>

\* Validators.validate_year(year)
ValidateYear ==
    /\ called' = "validate_year"
    /\ year_valid' = validate_year(year_value)
    /\ UNCHANGED <<chunk_args, chunks, truncate_args, truncated, year_value>>
    /\ UNCHANGED <<managerVars, helperVars, clientVars>>

SpecChunk == InitChunk /\ [][ChunkText]_vars
SpecTruncate == InitTruncate /\ [][TruncateText]_vars
SpecYear == InitYear /\ [][ValidateYear]_vars

ClientNext == AnalyzeDocument \/ RequestReturns \/ RequestRaises

SpecClient == InitClient /\ [][ClientNext]_vars

\* a call that is made starts, and a request that is sent returns or raises
FairSpecClient == SpecClient /\ WF_vars(ClientNext)

\* a client on which analyze_document or one of the other methods is called
InitOperations ==
    /\ ManagerUnused /\ HelpersUnused /\ UtilsUnused
    /\ pc = "idle"
    /\ attempt = 0
    /\ api_calls = <<>>
    /\ slept = <<>>
    /\ result = <<>>
    /\ using_comet \in BOOLEAN
    /\ content \in Contents
    /\ call \in Calls

\* the method of call is called with its arguments: the input validation,
\* and what else the method does before its request
CallOperation ==
    /\ pc = "idle"
    /\ called' = call.operation
    /\ LET early == returns_before_request(call)
       IN IF ~IsNone(early)
          THEN pc' = "done" /\ result' = early
          ELSE pc' = "call" /\ result' = result
    /\ UNCHANGED <<using_comet, content, attempt, api_calls, slept, call>>
    /\ UNCHANGED <<managerVars, helperVars, utilVars>>

\* the one request of the method returns a response
OperationReturns ==
    /\ pc = "call"
    /\ \E response \in Responses :
            result' = operation_returns(call, response, using_comet)
    /\ api_calls' = Append(api_calls, "returned")
    /\ pc' = "done"
    /\ UNCHANGED <<called, using_comet, content, attempt, slept, call>>
    /\ UNCHANGED <<managerVars, helperVars, utilVars>>

\* the one request of the method raises: the except clause returns
OperationRaises ==
    /\ pc = "call"
    /\ \E e \in Errors : result' = operation_raises(call, e)
    /\ api_calls' = Append(api_calls, "raised")
    /\ pc' = "done"
    /\ UNCHANGED <<called, using_comet, content, attempt, slept, call>>
    /\ UNCHANGED <<managerVars, helperVars, utilVars>>

OperationsNext ==
    \/ AnalyzeDocument \/ RequestReturns \/ RequestRaises
    \/ CallOperation \/ OperationReturns \/ OperationRaises

SpecOperations == InitOperations /\ [][OperationsNext]_vars

---------------------------------------------------------------------------
(* Properties of format_citation *)

\* what a style writes directly after the authors clause
AfterAuthors(style, year) ==
    CASE style = "APA 7th" -> " (" \o PyFormat(year) \o "). "
      [] style = "MLA 9th" -> ". \""
      [] style = "Chicago 17th" -> ". \""
      [] style = "IEEE" -> ", \""
      [] style = "Harvard" -> " " \o PyFormat(year) \o ", '"

\* C1: with an empty authors list format_citation does not fail in any of
\* the five styles; it returns a string whose authors clause is empty, so
\* the string starts with what the style writes after the authors.
C1_EmptyAuthorsFormatted ==
    (/\ called = "format_citation"
     /\ fmt_args.authors = <<>>
     /\ fmt_args.style \in KnownStyles)
    => /\ Returned(formatted)
       /\ StartsWith(formatted.val, AfterAuthors(fmt_args.style, fmt_args.year))

\* C2: a style tag that is not one of the five gives exactly the outcome
\* the APA style gives for the same record, a failure included.
C2_UnknownStyleIsApa ==
    (called = "format_citation" /\ fmt_args.style \notin KnownStyles)
    => formatted = _format_apa(fmt_args.authors, fmt_args.year, fmt_args.title,
                               fmt_args.journal, fmt_args.volume,
                               fmt_args.issue, fmt_args.pages, fmt_args.doi)

C2_Witness ==
    /\ called = "format_citation"
    /\ fmt_args.style = "Vancouver"
    /\ Len(fmt_args.authors) = 2
    /\ fmt_args.journal # ""
    /\ Returned(formatted)

\* the separators no clause may leave behind
Stray == {"..", ".\".", "  ", " ,"}

\* the record has an author, and no field of it carries or ends in
\* punctuation that would itself show up as a stray separator
CleanFields(a) ==
    /\ a.authors # <<>>
    /\ \A f \in {a.authors[i] : i \in 1..Len(a.authors)}
             \cup {a.title, a.journal, a.volume, a.issue, a.pages, a.doi} :
          /\ Ch(f, Len(f)) \notin {".", " ", ","}
          /\ Ch(f, 1) \notin {".", " ", ","}
          /\ \A x \in Stray : ~Contains(f, x)

\* C3: in every style and for every combination of empty and non-empty
\* optional fields the formatted citation contains no stray separator:
\* no doubled period, no period after a quote closed on a period, no two
\* consecutive spaces and no space before a comma.
C3_NoStraySeparators ==
    (called = "format_citation" /\ Returned(formatted) /\ CleanFields(fmt_args))
    => \A x \in Stray : ~Contains(formatted.val, x)

---------------------------------------------------------------------------
(* Properties of extract_citations *)

IsInText(m) == m.type = PyStr("in-text")
IsNumbered(m) == m.type = PyStr("numbered")

\* a is a capitalised author phrase: letters, spaces, ampersands and commas
\* after a capital, with no whitespace around it and no comma closing it
AuthorPhrase(a) ==
    /\ Len(a) >= 1
    /\ Ch(a, 1) \in Upper
    /\ RunLen(a, 1, AuthorClass) = Len(a)
    /\ Ch(a, Len(a)) \notin Whitespace \cup {","}

\* the well-formed citations "(A, Y)" of s, as pairs <<A, Y>>
AuthorYearCitations(s) ==
    {<<SubSeq(s, p + 1, e - 7), SubSeq(s, e - 4, e - 1)>> :
        <<p, e>> \in {pe \in (1..Len(s)) \X (1..Len(s)) :
            /\ pe[2] >= pe[1] + 8
            /\ Ch(s, pe[1]) = "("
            /\ Ch(s, pe[2]) = ")"
            /\ RunLen(s, pe[2] - 4, Digit) = 4
            /\ SubSeq(s, pe[2] - 6, pe[2] - 5) = ", "
            /\ AuthorPhrase(SubSeq(s, pe[1] + 1, pe[2] - 7))}}

\* C4: for every well-formed "(A, Y)" in the text there is an in-text
\* mention whose year is Y and whose authors field is A itself, without
\* the comma that separates it from the year.
C4_AuthorYearMention ==
    called = "extract_citations"
    => \A c \in AuthorYearCitations(text) :
          \E i \in 1..Len(extracted.val) :
             /\ IsInText(extracted.val[i])
             /\ extracted.val[i].authors = PyStr(c[1])
             /\ extracted.val[i].year = PyStr(c[2])

\* the number a numbered mention stands for
NumberOf(m) ==
    IF IsInt(m.number) THEN m.number.int ELSE DigitsValue(m.number.str)

\* C5: narrative citations "Author (Year)" are detected: the example of
\* the specification gives exactly one in-text mention, Smith 2023, and
\* one numbered mention for 4; the text with two narrative citations
\* gives at least two mentions.
C5_NarrativeCitations ==
    called = "extract_citations"
    => /\ text = SpecExample
          => /\ SelectSeq(extracted.val, IsInText)
                = <<[authors |-> PyStr("Smith"), year |-> PyStr("2023"),
                     type |-> PyStr("in-text")]>>
             /\ Len(SelectSeq(extracted.val, IsNumbered)) = 1
             /\ NumberOf(SelectSeq(extracted.val, IsNumbered)[1]) = 4
       /\ text = TestExample => Len(extracted.val) >= 2

\* the occurrences "[digits]" of s, as pairs <<position, digits>>
BracketedNumbers(s) ==
    {<<p, SubSeq(s, p + 1, p + RunLen(s, p + 1, Digit))>> :
        p \in {q \in 1..Len(s) :
            /\ Ch(s, q) = "["
            /\ RunLen(s, q + 1, Digit) >= 1
            /\ Ch(s, q + 1 + RunLen(s, q + 1, Digit)) = "]"}}

\* C6: every "[digits]" of the text gives exactly one numbered mention,
\* and the number field of a numbered mention is the integer the digits
\* denote, not their text.
C6_NumberIsInteger ==
    called = "extract_citations"
    => LET numbered == SelectSeq(extracted.val, IsNumbered)
       IN /\ Len(numbered) = Cardinality(BracketedNumbers(text))
          /\ \A i \in 1..Len(numbered) : IsInt(numbered[i].number)
          /\ \A b \in BracketedNumbers(text) :
                \E i \in 1..Len(numbered) :
                    numbered[i].number = PyInt(DigitsValue(b[2]))

---------------------------------------------------------------------------
(* Properties of validate_citation *)

\* the record lacks the field, or holds an empty list or string there
MissingOrEmpty(c, field) ==
    field \notin DOMAIN c \/ c[field] \in {PyList(<<>>), PyStr("")}

\* C7: a record with all required fields and a year below 1900 or above
\* 2030 is rejected, whatever year the clock shows.
C7_YearBand ==
    (/\ called = "validate_citation"
     /\ \A f \in {"authors", "year", "title"} : ~MissingOrEmpty(citation, f)
     /\ Returned(int(citation["year"]))
     /\ \/ int(citation["year"]).val < 1900
        \/ int(citation["year"]).val > 2030)
    => valid = Return(FALSE)

\* C8: validate_citation returns False when authors or title is missing
\* or empty, or year is missing or not parsable as an integer; it returns
\* True for a non-empty authors list, a non-empty title and the year 2023
\* given as an integer or as the string "2023".
C8_RequiredFields ==
    called = "validate_citation"
    => /\ (\/ MissingOrEmpty(citation, "authors")
           \/ MissingOrEmpty(citation, "title")
           \/ MissingOrEmpty(citation, "year")
           \/ Raised(int(citation["year"])))
          => valid = Return(FALSE)
       /\ (/\ ~MissingOrEmpty(citation, "authors")
           /\ ~MissingOrEmpty(citation, "title")
           /\ "year" \in DOMAIN citation
           /\ citation["year"] \in {PyInt(2023), PyStr("2023")})
          => valid = Return(TRUE)

C8_Witness ==
    /\ called = "validate_citation"
    /\ citation = Dict(<<PyList(<<"Smith, J.">>)>>, <<PyStr("2023")>>,
                       <<PyStr("Test Article")>>)
    /\ valid = Return(TRUE)

\* C9: the same record receives the same verdict on every call, whenever
\* the calls are made.
C9_SameVerdict ==
    called = "validate_citation" => \A v \in earlier : v = valid

\* C10: validate_citation returns True or False for every record, also
\* one with missing keys, empty values or a year of the wrong type; it
\* never raises.
C10_NeverRaises ==
    called = "validate_citation" => Returned(valid) /\ valid.val \in BOOLEAN

C10_Witness ==
    /\ called = "validate_citation"
    /\ citation = Dict(<<PyList(<<"Smith, J.">>)>>, <<PyList(<<"2023">>)>>,
                       <<PyStr("Test Article")>>)
    /\ valid = Return(FALSE)

---------------------------------------------------------------------------
(* generate_bibliography *)

\* a record format_citation renders in every style: it names an author
ValidRecord(c) == "authors" \in DOMAIN c /\ c.authors # <<>>

\* the rendered strings of the records, in the order of the records
Rendered(records, style) ==
    [i \in 1..Len(records) |-> format_entry(records[i], style).val]

\* the rearrangements of the positions 1..n
Rearrangements(n) ==
    {f \in [1..n -> 1..n] : \A i, j \in 1..n : i # j => f[i] # f[j]}

\* the list read in the order f of its positions
Rearranged(list, f) == [i \in 1..Len(list) |-> list[f[i]]]

\* no string of the list is followed by a smaller one
Ordered(list) ==
    \A i, j \in 1..Len(list) : i < j => ~StrLess(list[j], list[i])

\* C11: generate_bibliography returns "" for an empty list of records; for N
\* records that each name an author it returns the N rendered strings, in
\* ascending lexicographic order, joined by "\n\n", and returns the same
\* string for every rearrangement of the list.
C11_SortedBibliography ==
    called = "generate_bibliography" =>
        /\ bib_records = <<>> => bibliography = Return("")
        /\ (\A i \in 1..Len(bib_records) : ValidRecord(bib_records[i])) =>
            /\ Returned(bibliography)
            /\ \E f \in Rearrangements(Len(bib_records)) :
                    LET list == Rearranged(Rendered(bib_records, bib_style), f)
                    IN /\ Ordered(list)
                       /\ bibliography.val = join("\n\n", list)
            /\ \A f \in Rearrangements(Len(bib_records)) :
                    generate_bibliography(Rearranged(bib_records, f),
                                          bib_style) = bibliography

\* three records given with Smith first are returned with Adams first
C11_Witness ==
    /\ called = "generate_bibliography"
    /\ Len(bib_records) = 3
    /\ \A i \in 1..3 : ValidRecord(bib_records[i])
    /\ bib_records[1].authors = <<"Smith, J.">>
    /\ Returned(bibliography)
    /\ StartsWith(bibliography.val, "Adams, A.")

---------------------------------------------------------------------------
(* The authors clause and the templates of the styles *)

\* the clause of a style that writes A, A<two>B and A<many>
FirstAuthorClause(authors, two, many) ==
    IF Len(authors) = 1 THEN authors[1]
    ELSE IF Len(authors) = 2 THEN authors[1] \o two \o authors[2]
    ELSE authors[1] \o many

\* the first letter and a period for each token but the last, then the last
RECURSIVE InitialsThenLast(_)
InitialsThenLast(tokens) ==
    IF Len(tokens) = 1 THEN tokens[1]
    ELSE Ch(tokens[1], 1) \o ". " \o InitialsThenLast(Tail(tokens))

\* the IEEE rendering of one name
IeeeName(name) ==
    IF Len(split(name, 1)) >= 2 THEN InitialsThenLast(split(name, 1)) ELSE name

\* the IEEE authors clause
IeeeClause(authors) ==
    IF Len(authors) > 3 THEN IeeeName(authors[1]) \o " et al."
    ELSE join(", ", [i \in 1..Len(authors) |-> IeeeName(authors[i])])

\* the authors clause of the style table, for one author or more
AuthorsClause(style, authors) ==
    CASE style = "APA 7th" -> FirstAuthorClause(authors, " & ", " et al.")
      [] style = "MLA 9th" -> FirstAuthorClause(authors, ", and ", ", et al.")
      [] style = "Harvard" -> FirstAuthorClause(authors, " and ", " et al.")
      [] style = "Chicago 17th" -> join(", ", authors)
      [] style = "IEEE" -> IeeeClause(authors)

\* C12: for a record with at least one author the citation starts with the
\* authors clause of the style table in APA (A, A & B, A et al.), MLA (A,
\* A, and B, A, et al.), Harvard (A, A and B, A et al.) and Chicago (all
\* names joined by ", "), the names as given, followed by what the style
\* writes after the authors.
C12_AuthorsClause ==
    (/\ called = "format_citation"
     /\ fmt_args.style \in {"APA 7th", "MLA 9th", "Harvard", "Chicago 17th"}
     /\ fmt_args.authors # <<>>) =>
        /\ Returned(formatted)
        /\ StartsWith(formatted.val,
                      AuthorsClause(fmt_args.style, fmt_args.authors)
                      \o AfterAuthors(fmt_args.style, fmt_args.year))

\* three authors in APA give the first one and et al.
C12_Witness ==
    /\ called = "format_citation"
    /\ fmt_args.style = "APA 7th"
    /\ fmt_args.authors = <<"Smith, J.", "Jones, K.", "Plato">>
    /\ Returned(formatted)
    /\ StartsWith(formatted.val, "Smith, J. et al. (2023). ")

\* C13: in IEEE style a name of two or more tokens is rendered as the
\* initial and a period of each token but the last, separated by spaces,
\* then the last token; a one-token name is unchanged; more than three
\* authors give the first rendered name and " et al.", one to three give
\* the rendered names joined by ", ".
C13_IeeeAuthors ==
    (/\ called = "format_citation"
     /\ fmt_args.style = "IEEE"
     /\ fmt_args.authors # <<>>) =>
        /\ Returned(formatted)
        /\ StartsWith(formatted.val,
                      IeeeClause(fmt_args.authors)
                      \o AfterAuthors("IEEE", fmt_args.year))

\* a three-token name and a one-token name in IEEE
C13_Witness ==
    /\ called = "format_citation"
    /\ fmt_args.style = "IEEE"
    /\ fmt_args.authors = <<"John Paul Smith", "Plato">>
    /\ Returned(formatted)
    /\ StartsWith(formatted.val, "J. P. Smith, Plato, \"")

\* a record with an author and every optional field
FullRecord(a) ==
    /\ a.authors # <<>>
    /\ a.title # ""
    /\ a.journal # ""
    /\ a.volume # ""
    /\ a.issue # ""
    /\ a.pages # ""
    /\ a.doi # ""

\* Authors. "Title." Journal Volume, no. Issue (Year): Pages.
\* https://doi.org/DOI
ChicagoTemplate(a) ==
    AuthorsClause("Chicago 17th", a.authors) \o ". \"" \o a.title \o ".\" "
    \o a.journal \o " " \o a.volume \o ", no. " \o a.issue
    \o " (" \o PyFormat(a.year) \o "): " \o a.pages
    \o ". https://doi.org/" \o a.doi

\* C14 as stated: in Chicago style a record with every field is rendered
\* as Authors. "Title." Journal Volume, no. Issue (Year): Pages.
\* https://doi.org/DOI with nothing after the DOI.
C14_ChicagoEndsWithDoi ==
    (/\ called = "format_citation"
     /\ fmt_args.style = "Chicago 17th"
     /\ FullRecord(fmt_args)) =>
        formatted = Return(ChicagoTemplate(fmt_args))

\* C14 amended: in Chicago style a record with every field is rendered as
\* Authors. "Title." Journal Volume, no. Issue (Year): Pages.
\* https://doi.org/DOI followed by a final period.
C14_ChicagoFullRecord ==
    (/\ called = "format_citation"
     /\ fmt_args.style = "Chicago 17th"
     /\ FullRecord(fmt_args)) =>
        formatted = Return(ChicagoTemplate(fmt_args) \o ".")

\* a full record of two authors rendered in Chicago style
C14_Witness ==
    /\ called = "format_citation"
    /\ fmt_args.style = "Chicago 17th"
    /\ FullRecord(fmt_args)
    /\ fmt_args.authors = <<"Smith, J.", "Jones, K.">>
    /\ formatted = Return("Smith, J., Jones, K.. \"Test Article.\" Test Journal 10, no. 2 (2023): 100-110. https://doi.org/10.1000/xyz.")

\* the template of a style other than Chicago, filled with a full record
Template(a) ==
    LET Authors == AuthorsClause(a.style, a.authors)
        Year == PyFormat(a.year)
    IN CASE a.style = "APA 7th" ->
                Authors \o " (" \o Year \o "). " \o a.title \o ". "
                \o a.journal \o ", " \o a.volume \o "(" \o a.issue \o "), "
                \o a.pages \o ". https://doi.org/" \o a.doi
         [] a.style = "MLA 9th" ->
                Authors \o ". \"" \o a.title \o ".\" " \o a.journal
                \o ", vol. " \o a.volume \o ", no. " \o a.issue \o ", "
                \o Year \o ", pp. " \o a.pages \o "."
         [] a.style = "IEEE" ->
                Authors \o ", \"" \o a.title \o ",\" " \o a.journal
                \o ", vol. " \o a.volume \o ", no. " \o a.issue
                \o ", pp. " \o a.pages \o ", " \o Year \o "."
         [] a.style = "Harvard" ->
                Authors \o " " \o Year \o ", '" \o a.title \o "', "
                \o a.journal \o ", vol. " \o a.volume \o ", no. " \o a.issue
                \o ", pp. " \o a.pages \o "."

\* C15: a record with every field is rendered exactly as the template of
\* its style in APA, MLA, IEEE and Harvard.
C15_Templates ==
    (/\ called = "format_citation"
     /\ fmt_args.style \in {"APA 7th", "MLA 9th", "IEEE", "Harvard"}
     /\ FullRecord(fmt_args)) =>
        formatted = Return(Template(fmt_args))

\* a full record of one author rendered in Harvard style
C15_Witness ==
    /\ called = "format_citation"
    /\ fmt_args.style = "Harvard"
    /\ FullRecord(fmt_args)
    /\ fmt_args.authors = <<"Smith, J.">>
    /\ formatted = Return("Smith, J. 2023, 'Test Article', Test Journal, vol. 10, no. 2, pp. 100-110.")

---------------------------------------------------------------------------
(* Helpers.parse_authors *)

\* C16: parse_authors returns one entry per author, each a whole name: the
\* N names of a string of "Surname, I." authors separated by ";", and the
\* same N names when they are separated by ", " with a final ", & ".
C16_OneEntryPerAuthor ==
    called = "parse_authors" =>
        \A names \in NameLists(Surnames) :
            Len(names) >= 2 =>
                /\ authors_str = SemicolonForm(names) => parsed = Return(names)
                /\ authors_str = AmpersandForm(names) => parsed = Return(names)

---------------------------------------------------------------------------
(* GPT5Client.analyze_document *)

\* the requests made so far but the last one
Earlier(calls) == SubSeq(calls, 1, Len(calls) - 1)

\* the waits after a number of failed attempts: 1 s after the first, 2 s
\* after the second, none after the third
Waits(failed) == SubSeq(<<1, 2>>, 1, IF failed < 2 THEN failed ELSE 2)

Failed(calls) == Cardinality({i \in 1..Len(calls) : calls[i] = "raised"})

\* at most 3 requests, none after one that returned, the waits of the
\* linear backoff, and success = False only after three failures
RetryWithBackoff ==
    /\ Len(api_calls) <= 3
    /\ \A i \in 1..Len(Earlier(api_calls)) : api_calls[i] = "raised"
    /\ slept = Waits(Failed(api_calls))
    /\ pc = "done" =>
           /\ result.success = FALSE =>
                  api_calls = <<"raised", "raised", "raised">>
           /\ result.success = TRUE =>
                  api_calls # <<>> /\ api_calls[Len(api_calls)] = "returned"

\* C17 as stated: for content that is not the empty string analyze_document
\* makes at most 3 requests, stops at the first that does not raise, waits
\* 1 s after the first failure and 2 s after the second, and returns
\* success = False only after the third failure in a row.
C17_RetryNonEmpty ==
    (called = "analyze_document" /\ content # "") => RetryWithBackoff

\* C17 amended: the same for content that is neither empty nor made of
\* whitespace only.
C17_RetryWithContent ==
    (called = "analyze_document" /\ ~no_content(content)) => RetryWithBackoff

\* two failures, each followed by its wait, then a response
C17_Witness ==
    /\ pc = "done"
    /\ ~no_content(content)
    /\ api_calls = <<"raised", "raised", "returned">>
    /\ slept = <<1, 2>>
    /\ result.success = TRUE

\* C18: for every content and every behaviour of the API the call of
\* analyze_document ends, and the dictionary it returns has the key
\* success, and the key analysis when success is True.
C18_ReturnsResult ==
    /\ <>(pc = "done")
    /\ [](pc = "done" =>
             /\ "success" \in DOMAIN result
             /\ result.success = TRUE => "analysis" \in DOMAIN result)

\* the third attempt has failed and the call has returned a dictionary
C18_Witness ==
    /\ pc = "done"
    /\ Len(api_calls) = 3
    /\ "success" \in DOMAIN result
    /\ result.success = FALSE

---------------------------------------------------------------------------
(* The four methods on one manager *)

\* the arguments the caller has passed
Passed == <<text, fmt_args, citation, bib_records, bib_style>>

\* the outcome of the last call is the outcome of that call alone: of the
\* method on its arguments (and, for validate_citation, the year of a clock
\* reading since the start)
OwnResult ==
    /\ called = "extract_citations" => extracted = extract_citations(text)
    /\ called = "format_citation" => formatted = format_record(fmt_args)
    /\ called = "generate_bibliography" =>
           bibliography = generate_bibliography(bib_records, bib_style)
    /\ called = "validate_citation" =>
           \E y \in FirstYear..now : valid = validate_citation(citation, y)

\* C19: after any sequence of extract_citations, format_citation,
\* generate_bibliography and validate_citation calls on one manager,
\* manager.citations is still empty, the list of records and the records
\* passed in are as they were passed, and the result of every call is that
\* of the call alone, whatever calls were made before it.
C19_NothingShared ==
    /\ [](citations = <<>> /\ OwnResult)
    /\ [][Passed' = Passed]_vars

\* all four methods have been called, generate_bibliography on two records
\* given in descending order
C19_Witness ==
    /\ called = "validate_citation"
    /\ extracted # Return(<<>>)
    /\ formatted # Return("")
    /\ Len(bib_records) = 2
    /\ Returned(bibliography)
    /\ StartsWith(bibliography.val, "Adams, A.")
    /\ citations = <<>>

---------------------------------------------------------------------------
(* The mention invariant *)

\* the mention has the field and the field is not the empty string
Populated(m, field) == field \in DOMAIN m /\ m[field] # PyStr("")

\* C20: every mention returned by extract_citations is in-text or numbered;
\* an in-text mention has authors and year populated and no number, a
\* numbered mention has number populated and neither authors nor year.
C20_MentionInvariant ==
    called = "extract_citations" =>
        \A i \in 1..Len(extracted.val) :
            LET m == extracted.val[i]
            IN /\ IsInText(m) \/ IsNumbered(m)
               /\ IsInText(m) =>
                      /\ Populated(m, "authors")
                      /\ Populated(m, "year")
                      /\ "number" \notin DOMAIN m
               /\ IsNumbered(m) =>
                      /\ Populated(m, "number")
                      /\ "authors" \notin DOMAIN m
                      /\ "year" \notin DOMAIN m

\* a text with a mention of each kind
C20_Witness ==
    /\ called = "extract_citations"
    /\ text = "(Smith & Jones 2021)[007]"
    /\ Len(extracted.val) = 2
    /\ IsInText(extracted.val[1])
    /\ IsNumbered(extracted.val[2])

---------------------------------------------------------------------------
(* The static utilities *)

\* C21: for every text and every positive max_chunk_size, every chunk that
\* chunk_text returns has at most max_chunk_size characters.
C21_ChunksFit ==
    (called = "chunk_text" /\ chunk_args.max_chunk_size >= 1) =>
        /\ Returned(chunks)
        /\ \A i \in 1..Len(chunks.val) :
               Len(chunks.val[i]) <= chunk_args.max_chunk_size

EndsWith(s, suffix) ==
    Len(suffix) <= Len(s) /\ SubSeq(s, Len(s) - Len(suffix) + 1, Len(s)) = suffix

\* C22: for every text, max_length >= 0 and suffix, truncate_text returns a
\* string of at most max_length characters: the text itself when it fits,
\* and otherwise a string that ends with the suffix.
C22_TruncatedFits ==
    (called = "truncate_text" /\ truncate_args.max_length >= 0) =>
        /\ Returned(truncated)
        /\ Len(truncated.val) <= truncate_args.max_length
        /\ Len(truncate_args.text) <= truncate_args.max_length =>
               truncated.val = truncate_args.text
        /\ Len(truncate_args.text) > truncate_args.max_length =>
               EndsWith(truncated.val, truncate_args.suffix)

\* the argument is not a number and not the text of one
NonNumeric(v) == IsNone(v) \/ IsList(v) \/ (IsStr(v) /\ Raised(int(v)))

\* C23: validate_year returns True exactly when int() of its argument is a
\* year from 1900 to 2030, and returns False, without raising, for an
\* argument that is not numeric, such as "invalid" or None.
C23_ValidateYear ==
    called = "validate_year" =>
        /\ year_valid = Return(TRUE) <=>
               /\ Returned(int(year_value))
               /\ 1900 <= int(year_value).val
               /\ int(year_value).val <= 2030
        /\ NonNumeric(year_value) => year_valid = Return(FALSE)

\* the year 2023 given as a string is accepted
C23_Witness ==
    /\ called = "validate_year"
    /\ year_value = PyStr("2023")
    /\ year_valid = Return(TRUE)

---------------------------------------------------------------------------
(* The two passes of extract_citations *)

\* the position of the first digit of the year of a parenthesised
\* author-year citation that starts at p
YearAt(s, p) == p + 2 + RunLen(s, p + 2, AuthorClass)

\* a parenthesised author-year citation starts at p: "(", a capital, one or
\* more letters, spaces, ampersands and commas, four digits, ")"
CitationAt(s, p) ==
    /\ Ch(s, p) = "("
    /\ Ch(s, p + 1) \in Upper
    /\ YearAt(s, p) > p + 2
    /\ \A j \in 0..3 : Ch(s, YearAt(s, p) + j) \in Digit
    /\ Ch(s, YearAt(s, p) + 4) = ")"

CitationStarts(s) == {p \in 1..Len(s) : CitationAt(s, p)}

RECURSIVE InOrder(_)
InOrder(S) ==
    IF S = {} THEN <<>>
    ELSE LET first == CHOOSE x \in S : \A y \in S : x <= y
         IN <<first>> \o InOrder(S \ {first})

\* C29: the result lists a mention for every author-year citation of the
\* text, in their order in the text, and then a mention for every
\* "[digits]", in their order in the text, repeated ones included: the
\* in-text mentions all come before the numbered ones and the length of
\* the result is the number of the ones plus the number of the others.
C29_TwoPasses ==
    called = "extract_citations" =>
        LET starts == InOrder(CitationStarts(text))
            brackets == InOrder({b[1] : b \in BracketedNumbers(text)})
            mentions == extracted.val
        IN /\ Len(mentions) = Len(starts) + Len(brackets)
           /\ \A i \in 1..Len(starts) :
                  /\ IsInText(mentions[i])
                  /\ mentions[i].year =
                         PyStr(SubSeq(text, YearAt(text, starts[i]),
                                      YearAt(text, starts[i]) + 3))
                  /\ StartsWith(SubSeq(text, starts[i] + 1, Len(text)),
                                mentions[i].authors.str)
           /\ \A i \in 1..Len(brackets) :
                  LET m == mentions[Len(starts) + i]
                      digits == SubSeq(text, brackets[i] + 1,
                                       brackets[i] + RunLen(text, brackets[i] + 1, Digit))
                  IN IsNumbered(m) /\ NumberOf(m) = DigitsValue(digits)

\* a numbered citation before and after an in-text one: the in-text
\* mention comes first and the repeated number is listed twice
C29_Witness ==
    /\ called = "extract_citations"
    /\ text = "[4](Smith, 2023)[4]"
    /\ Len(extracted.val) = 3
    /\ IsInText(extracted.val[1])
    /\ IsNumbered(extracted.val[2])
    /\ extracted.val[2] = extracted.val[3]

---------------------------------------------------------------------------
(* Determinism of format_citation *)

---------------------------------------------------------------------------
(* The required and the optional fields in the citation *)

\* C26: in each of the five styles the citation of a record with at least
\* one author contains the year and the title of the record, whichever of
\* journal, volume, issue, pages and doi are empty.
C26_YearAndTitle ==
    (/\ called = "format_citation"
     /\ fmt_args.style \in KnownStyles
     /\ fmt_args.authors # <<>>) =>
        /\ Returned(formatted)
        /\ Contains(formatted.val, PyFormat(fmt_args.year))
        /\ Contains(formatted.val, fmt_args.title)

\* C30: with an empty journal the citation is the one of the record
\* without volume, issue and pages; in APA with an empty volume it is the
\* one of the record without issue; in MLA, IEEE and Harvard it is the one
\* of the record without doi.
C30_OptionalFields ==
    called = "format_citation" =>
        /\ fmt_args.journal = "" =>
               formatted = format_record([fmt_args EXCEPT !.volume = "",
                                                          !.issue = "",
                                                          !.pages = ""])
        /\ (fmt_args.style = "APA 7th" /\ fmt_args.volume = "") =>
               formatted = format_record([fmt_args EXCEPT !.issue = ""])
        /\ fmt_args.style \in {"MLA 9th", "IEEE", "Harvard"} =>
               formatted = format_record([fmt_args EXCEPT !.doi = ""])

\* a record with volume, issue, pages and doi but no journal, in MLA
C30_Witness ==
    /\ called = "format_citation"
    /\ fmt_args.style = "MLA 9th"
    /\ fmt_args.authors = <<"Smith, J.">>
    /\ fmt_args.journal = ""
    /\ fmt_args.volume # "" /\ fmt_args.issue # "" /\ fmt_args.pages # ""
    /\ fmt_args.doi # ""
    /\ formatted = Return("Smith, J.. \"Test Article.\".")

---------------------------------------------------------------------------
(* The other methods of the client *)

OtherOperations ==
    {"generate_literature_review", "compare_documents",
     "answer_research_question", "generate_hypotheses",
     "conduct_meta_analysis", "generate_research_synthesis",
     "generate_bibliography", "format_citation", "analyze_citations"}

\* C27: each of the nine methods other than analyze_document retries a
\* request that has raised, with the waits of the backoff, and returns
\* success = False for a request that has raised only after three requests
\* have raised.
C27_OthersRetry ==
    (/\ called \in OtherOperations
     /\ pc = "done"
     /\ api_calls # <<>>
     /\ result.success = FALSE)
    => (api_calls = <<"raised", "raised", "raised">> /\ slept = <<1, 2>>)

\* v is None, or a str that is empty or made of whitespace only
IsBlank(v) == IsNone(v) \/ \A i \in 1..Len(v.str) : Ch(v.str, i) \in Whitespace

\* v is None or a list of fewer than n papers
FewerPapers(v, n) == IsNone(v) \/ Len(v.list) < n

\* the call made is one the input validation is to reject
RejectedInput ==
    \/ called = "analyze_document" /\ IsBlank(PyStr(content))
    \/ /\ called = "generate_literature_review"
       /\ FewerPapers(call.papers, 1) \/ IsBlank(call.research_question)
    \/ /\ called = "generate_hypotheses"
       /\ IsBlank(call.research_area) \/ IsBlank(call.literature_summary)
    \/ called = "conduct_meta_analysis" /\ FewerPapers(call.papers, 2)

\* C28: analyze_document with empty or whitespace-only content,
\* generate_literature_review with no papers or a blank research question,
\* generate_hypotheses with a blank research area or summary, and
\* conduct_meta_analysis with fewer than 2 papers return at once a
\* dictionary with success = False and an error message; no request has
\* been made and no sleep.
C28_ValidationFirst ==
    RejectedInput =>
        /\ pc = "done"
        /\ api_calls = <<>>
        /\ slept = <<>>
        /\ result.success = FALSE
        /\ "error" \in DOMAIN result
        /\ result.error # ""

\* conduct_meta_analysis has been called with one paper and a question
C28_Witness ==
    /\ called = "conduct_meta_analysis"
    /\ ~IsNone(call.papers)
    /\ Len(call.papers.list) = 1
    /\ ~IsBlank(call.research_question)
    /\ pc = "done"
    /\ result = [success |-> FALSE, error |-> "At least 2 studies required for meta-analysis"]
    /\ api_calls = <<>>

====
